---- MODULE Spec2Model ----
(***************************************************************************)
(* A model of terrain-gen: the winit event loop of src/src/app.rs (startup, *)
(* resize, update, render, input, exit), the scene it owns (light,         *)
(* entities, camera rig) and the procedural meshes of src/src/vertex.rs.   *)
(*                                                                         *)
(* f32 values are fixed-point integers in units of 1/U.  Rust indices are  *)
(* kept: a Vec is a sequence and Nth(v, i) is its element v[i] of the Rust *)
(* code; mesh indices count from 0 (vertex k is Nth(vertices, k)).         *)
(***************************************************************************)
EXTENDS Integers, Sequences, FiniteSets, TLC

VARIABLES
    proc,   \* the process: pc, exit status, what was printed, exit requested
    now,    \* the monotonic clock (Instant::now()), in ticks
    app,    \* App { state: Option<AppState>, last_time }
    ev,     \* the event handled last and the calls its handler made
    mesh,   \* a Mesh { vertices, indices } being generated
    gen,    \* the generator call applied to mesh last, and the mesh before it
    rig,    \* a CameraWrapper { camera, camera_controller } driven on its own
    trail,  \* the call made on rig last, and the motion events not yet consumed
    ent     \* an Entity and the EntityData computed from it

appVars == <<proc, now, app, ev>>
meshVars == <<mesh, gen>>
rigVars == <<rig, trail>>
entVars == <<ent>>
vars == <<proc, now, app, ev, mesh, gen, rig, trail, ent>>

----------------------------------------------------------------------------
(* Bounds of the model.                                                    *)

\* window and surface dimensions range over 0..MaxDim
MaxDim == 2
\* the clock stops advancing after MaxTicks ticks
MaxTicks == 1
\* a mesh receives at most MaxCalls generator calls
MaxCalls == 3
\* generate_plane is called with resolution 0..MaxRes
MaxRes == 3
\* a camera rig receives at most MaxOps calls
MaxOps == 4

----------------------------------------------------------------------------
(* Fixed-point arithmetic standing for f32.                                *)

U == 10 * 1000

\* v[i] of a Rust Vec or slice
Nth(v, i) == v[i + 1]

Abs(a) == IF a < 0 THEN -a ELSE a
Max(a, b) == IF a >= b THEN a ELSE b
Min(a, b) == IF a <= b THEN a ELSE b

\* division rounding toward zero
TruncDiv(a, b) == IF a >= 0 THEN a \div b ELSE -((-a) \div b)
FMul(a, b) == TruncDiv(a * b, U)
\* remainder with the sign of the dividend (Rust's % on f32)
FRem(a, b) == IF a >= 0 THEN a % b ELSE -((-a) % b)

\* the integer square root, by Newton's iteration from r (r2 is the next
\* iterate)
RECURSIVE SqrtIter(_, _, _)
SqrtIter(n, r, r2) ==
    IF r2 >= r THEN r ELSE SqrtIter(n, r2, (r2 + n \div r2) \div 2)
ISqrt(n) == IF n <= 0 THEN 0 ELSE SqrtIter(n, n, (n + 1) \div 2)

\* std::f32::consts::PI and FRAC_PI_2, in units of 1/U
PI == 31416
FRAC_PI_2 == 15708
TWO_PI == 2 * PI

\* sine of an angle x in [-FRAC_PI_2, FRAC_PI_2] by its Taylor polynomial
\* (x2 is x squared)
SinPoly(x, x2) ==
    LET t4 == U - x2 \div 72
        t3 == U - FMul(x2, t4) \div 42
        t2 == U - FMul(x2, t3) \div 20
        t1 == U - FMul(x2, t2) \div 6
    IN  FMul(x, t1)
SinCore(x) == SinPoly(x, FMul(x, x))
\* sine of an angle in [-PI, PI]
SinHalfTurn(a) ==
    IF a > FRAC_PI_2 THEN SinCore(PI - a)
    ELSE IF a < -FRAC_PI_2 THEN SinCore(-PI - a)
    ELSE SinCore(a)
\* sine of an angle in (-TWO_PI, TWO_PI)
SinTurn(r) ==
    SinHalfTurn(IF r > PI THEN r - TWO_PI ELSE IF r < -PI THEN r + TWO_PI ELSE r)
Sin(x) == SinTurn(FRem(x, TWO_PI))
Cos(x) == Sin(x + FRAC_PI_2)

\* Rad::from(Deg(d)) for d in units of 1/U degrees, |d| at most a few turns
DegToRad(d) == TruncDiv(TruncDiv(d, 100) * 17453, 10 * 1000)

Vec3(x, y, z) == [x |-> x, y |-> y, z |-> z]
Vec4(x, y, z, w) == [x |-> x, y |-> y, z |-> z, w |-> w]
VZero == Vec3(0, 0, 0)
VAdd(a, b) == Vec3(a.x + b.x, a.y + b.y, a.z + b.z)
VSub(a, b) == Vec3(a.x - b.x, a.y - b.y, a.z - b.z)
VScale(a, s) == Vec3(FMul(a.x, s), FMul(a.y, s), FMul(a.z, s))
VDot(a, b) == FMul(a.x, b.x) + FMul(a.y, b.y) + FMul(a.z, b.z)
VCross(a, b) ==
    Vec3(FMul(a.y, b.z) - FMul(a.z, b.y),
         FMul(a.z, b.x) - FMul(a.x, b.z),
         FMul(a.x, b.y) - FMul(a.y, b.x))
VMagnitude(a) == ISqrt(a.x * a.x + a.y * a.y + a.z * a.z)
VDiv(a, m) == Vec3(TruncDiv(a.x * U, m), TruncDiv(a.y * U, m), TruncDiv(a.z * U, m))
VNormalize(a) == VDiv(a, VMagnitude(a))
Xyz(v) == Vec3(v.x, v.y, v.z)

\* Products of two f32 values kept unrounded, in units of 1/U^2: f32 has a
\* relative precision, so the small horizontal components of a steep front
\* vector keep their direction; at 1/U they would all round to zero.
MaxAbs(v) == Max(Abs(v.x), Max(Abs(v.y), Abs(v.z)))
\* a * b / U for a wide a, without leaving 32 bits
FMulWide(a, b) ==
    IF a >= 0 THEN (a \div U) * b + TruncDiv((a % U) * b, U)
    ELSE -(((-a) \div U) * b + TruncDiv(((-a) % U) * b, U))
VCrossWide(a, b) ==
    Vec3(FMulWide(a.y, b.z) - FMulWide(a.z, b.y),
         FMulWide(a.z, b.x) - FMulWide(a.x, b.z),
         FMulWide(a.x, b.y) - FMulWide(a.y, b.x))
VShrink(v, s) == Vec3(TruncDiv(v.x, s), TruncDiv(v.y, s), TruncDiv(v.z, s))
\* normalize() of a wide vector: brought to about U first
VNormalizeWide(v) == VNormalize(VShrink(v, Max(1, MaxAbs(v) \div U)))
\* Point3::to_homogeneous
ToHomogeneous(v) == Vec4(v.x, v.y, v.z, U)

----------------------------------------------------------------------------
(* cgmath::Matrix4, column-major: M[c][r] is column c, row r (both 1..4).  *)

Mat4(c1, c2, c3, c4) == <<c1, c2, c3, c4>>
MatIdentity ==
    Mat4(<<U, 0, 0, 0>>, <<0, U, 0, 0>>, <<0, 0, U, 0>>, <<0, 0, 0, U>>)
\* entry (column c, row r) of the product A * B
MatMulEntry(A, B, c, r) ==
    FMul(A[1][r], B[c][1]) + FMul(A[2][r], B[c][2])
    + FMul(A[3][r], B[c][3]) + FMul(A[4][r], B[c][4])
MatMulCol(A, B, c) ==
    <<MatMulEntry(A, B, c, 1), MatMulEntry(A, B, c, 2),
      MatMulEntry(A, B, c, 3), MatMulEntry(A, B, c, 4)>>
MatMul(A, B) ==
    Mat4(MatMulCol(A, B, 1), MatMulCol(A, B, 2), MatMulCol(A, B, 3),
         MatMulCol(A, B, 4))
\* Matrix4::from_translation
FromTranslation(v) ==
    Mat4(<<U, 0, 0, 0>>, <<0, U, 0, 0>>, <<0, 0, U, 0>>, <<v.x, v.y, v.z, U>>)
\* Matrix4::from_nonuniform_scale
FromNonuniformScale(x, y, z) ==
    Mat4(<<x, 0, 0, 0>>, <<0, y, 0, 0>>, <<0, 0, z, 0>>, <<0, 0, 0, U>>)
\* Quaternion { s, v: (x, y, z) }
Quat(s, x, y, z) == [s |-> s, x |-> x, y |-> y, z |-> z]
\* Quaternion::one
QuatOne == Quat(U, 0, 0, 0)
\* Quaternion::from_angle_x(Deg(d)): (s, c) = sin_cos(angle / 2)
QuatFromAngleX(d) ==
    LET half == DegToRad(d) \div 2
    IN  Quat(Cos(half), Sin(half), 0, 0)
\* Matrix4::from(Quaternion)
FromQuaternion(q) ==
    LET x2 == q.x + q.x
        y2 == q.y + q.y
        z2 == q.z + q.z
        xx2 == FMul(x2, q.x)
        xy2 == FMul(x2, q.y)
        xz2 == FMul(x2, q.z)
        yy2 == FMul(y2, q.y)
        yz2 == FMul(y2, q.z)
        zz2 == FMul(z2, q.z)
        sy2 == FMul(y2, q.s)
        sz2 == FMul(z2, q.s)
        sx2 == FMul(x2, q.s)
    IN  Mat4(<<U - yy2 - zz2, xy2 + sz2, xz2 - sy2, 0>>,
             <<xy2 - sz2, U - xx2 - zz2, yz2 + sx2, 0>>,
             <<xz2 + sy2, yz2 - sx2, U - xx2 - yy2, 0>>,
             <<0, 0, 0, U>>)

----------------------------------------------------------------------------
(* src/src/entity.rs                                                       *)

\* Entity::new; the mesh is named, its contents are CubeMesh / PlaneMesh
Entity(mesh_, position, rotation, scale) ==
    [mesh |-> mesh_, position |-> position, rotation |-> rotation, scale |-> scale]

get_model_matrix_scaling_first(e) ==
    LET m0 == MatIdentity
        m1 == MatMul(m0, FromNonuniformScale(e.scale.x, e.scale.y, e.scale.z))
        m2 == MatMul(m1, FromTranslation(e.position))
    IN  MatMul(m2, FromQuaternion(e.rotation))

get_model_matrix(e) ==
    LET m0 == MatIdentity
        m1 == MatMul(m0, FromTranslation(e.position))
        m2 == MatMul(m1, FromNonuniformScale(e.scale.x, e.scale.y, e.scale.z))
    IN  MatMul(m2, FromQuaternion(e.rotation))

get_normal_matrix(e) == FromQuaternion(e.rotation)

to_entity_data(e) ==
    [mx_model |-> get_model_matrix(e), mx_normal |-> get_normal_matrix(e)]

\* an entity together with the instance record built from it
EntityRecord(e) == [entity |-> e, data |-> to_entity_data(e)]

update_entity_position(w, pos) ==
    [w EXCEPT !.entity = [w.entity EXCEPT !.position = pos]]

----------------------------------------------------------------------------
(* src/src/light.rs                                                        *)

PointLight(position, ambient_color) ==
    [position |-> position, ambient_color |-> ambient_color]

to_uniform_data(l) ==
    [pos |-> l.position, diffuse_color |-> ToHomogeneous(l.ambient_color)]

----------------------------------------------------------------------------
(* src/src/camera.rs                                                       *)

KeyCodes == {"KeyW", "KeyS", "KeyA", "KeyD", "Escape", "KeyQ"}

DefaultCamera ==
    LET front == Vec3(0, 0, -U)
        up == Vec3(0, U, 0)
    IN  [position |-> VZero,
         front |-> front,
         up |-> up,
         right |-> VNormalize(VCross(front, up)),
         world_up |-> up,
         yaw |-> DegToRad(-90 * U),
         pitch |-> 0,
         fovy |-> 90 * U]

DefaultCameraController ==
    [left |-> 0, right |-> 0, forward |-> 0, backward |-> 0,
     rotate_horizontal |-> 0, rotate_vertical |-> 0,
     speed |-> (5 * U) \div 2, sensitivity |-> U]

DefaultCameraWrapper ==
    [camera |-> DefaultCamera, camera_controller |-> DefaultCameraController]

handle_keyboard_clearing(c, key, pressed) ==
    LET amount == IF pressed THEN U ELSE 0
        d == IF pressed THEN c
             ELSE [c EXCEPT !.forward = 0, !.backward = 0, !.left = 0, !.right = 0]
    IN  CASE key = "KeyW" -> [d EXCEPT !.forward = amount]
          [] key = "KeyS" -> [d EXCEPT !.backward = amount]
          [] key = "KeyA" -> [d EXCEPT !.left = amount]
          [] key = "KeyD" -> [d EXCEPT !.right = amount]
          [] OTHER -> c

handle_keyboard(c, key, pressed) ==
    LET amount == IF pressed THEN U ELSE 0
    IN  CASE key = "KeyW" -> [c EXCEPT !.forward = amount]
          [] key = "KeyS" -> [c EXCEPT !.backward = amount]
          [] key = "KeyA" -> [c EXCEPT !.left = amount]
          [] key = "KeyD" -> [c EXCEPT !.right = amount]
          [] OTHER -> c

handle_mouse_motion_adding(c, dx, dy) ==
    [c EXCEPT !.rotate_horizontal = @ + dx, !.rotate_vertical = @ + dy]

handle_mouse_motion(c, dx, dy) ==
    [c EXCEPT !.rotate_horizontal = dx, !.rotate_vertical = dy]

\* clamp(v, lo, hi)
Clamp(v, lo, hi) == IF v < lo THEN lo ELSE IF v > hi THEN hi ELSE v

NewPitch_unclamped(cam, c, dt) ==
    cam.pitch - FMul(FMul(c.rotate_vertical, c.sensitivity), dt)

\* camera.yaw and camera.pitch after update_camera
NewYaw(cam, c, dt) ==
    FRem(cam.yaw + FMul(FMul(c.rotate_horizontal, c.sensitivity), dt), TWO_PI)
NewPitch(cam, c, dt) ==
    Clamp(cam.pitch - FMul(FMul(c.rotate_vertical, c.sensitivity), dt),
          -(FRAC_PI_2 - 1), FRAC_PI_2 - 1)

\* vec3(yaw_c * pitch_c, pitch_s, yaw_s * pitch_c), unrounded (units 1/U^2)
FrontRaw(yaw, pitch) ==
    Vec3(Cos(yaw) * Cos(pitch), Sin(pitch) * U, Sin(yaw) * Cos(pitch))
\* vec3(yaw_c * pitch_c, pitch_s, yaw_s * pitch_c).normalize()
Front(yaw, pitch) == VNormalizeWide(FrontRaw(yaw, pitch))
\* front.cross(world_up).normalize(), from the unrounded front
RightOf(front_raw, world_up) == VNormalizeWide(VCrossWide(front_raw, world_up))
\* right.cross(front).normalize()
UpOf(right, front) == VNormalize(VCross(right, front))

MovedPosition_turned(cam, c, dt) ==
    LET front == Front(NewYaw(cam, c, dt), NewPitch(cam, c, dt))
        right == RightOf(FrontRaw(NewYaw(cam, c, dt), NewPitch(cam, c, dt)), cam.world_up)
        p1 == VAdd(cam.position,
                   VScale(VScale(VScale(front, c.forward - c.backward), c.speed), dt))
    IN  VAdd(p1, VScale(VScale(VScale(right, c.right - c.left), c.speed), dt))

\* camera.position after the two += of update_camera
MovedPosition(cam, c, dt) ==
    LET p1 == VAdd(cam.position,
                   VScale(VScale(VScale(cam.front, c.forward - c.backward), c.speed), dt))
    IN  VAdd(p1, VScale(VScale(VScale(cam.right, c.right - c.left), c.speed), dt))

\* the camera with its new position and angles and the basis derived from
\* them
Oriented(cam, position, yaw, pitch, front, right) ==
    [cam EXCEPT !.position = position, !.yaw = yaw, !.pitch = pitch,
                !.front = front, !.right = right, !.up = UpOf(right, front)]
Turned(cam, position, yaw, pitch, front_raw) ==
    Oriented(cam, position, yaw, pitch, VNormalizeWide(front_raw),
             RightOf(front_raw, cam.world_up))
Moved(cam, position, yaw, pitch) ==
    Turned(cam, position, yaw, pitch, FrontRaw(yaw, pitch))

\* a faulty update: the pending rotation is not reset
update_camera_keeping_deltas(w, dt) ==
    [camera |-> Moved(w.camera,
                      MovedPosition(w.camera, w.camera_controller, dt),
                      NewYaw(w.camera, w.camera_controller, dt),
                      NewPitch(w.camera, w.camera_controller, dt)),
     camera_controller |-> w.camera_controller]

\* CameraController::update_camera: the camera and the controller after it
update_camera(w, dt) ==
    [camera |-> Moved(w.camera,
                      MovedPosition(w.camera, w.camera_controller, dt),
                      NewYaw(w.camera, w.camera_controller, dt),
                      NewPitch(w.camera, w.camera_controller, dt)),
     camera_controller |-> [w.camera_controller EXCEPT !.rotate_horizontal = 0,
                                                       !.rotate_vertical = 0]]

\* width as f32 / height as f32
Aspect(width, height) ==
    IF height = 0
    THEN [kind |-> IF width = 0 THEN "NaN" ELSE "inf", v |-> 0]
    ELSE [kind |-> "num", v |-> TruncDiv(width * U, height)]

\* cgmath::perspective asserts that the aspect ratio is not zero
PerspectivePanics(aspect) == aspect.kind = "num" /\ aspect.v = 0

\* the view and projection matrices are cgmath's look_to_rh and
\* OPENGL_TO_WGPU_MATRIX * perspective, named here by their arguments
get_view_matrix(cam) == [eye |-> cam.position, dir |-> cam.front, up |-> cam.up]
get_projection_matrix(cam, aspect, znear, zfar) ==
    [fovy |-> cam.fovy, aspect |-> aspect, znear |-> znear, zfar |-> zfar]

get_camera_uniform_data(w, aspect, znear, zfar) ==
    [view |-> get_view_matrix(w.camera),
     proj |-> get_projection_matrix(w.camera, aspect, znear, zfar),
     pos |-> ToHomogeneous(w.camera.position)]

----------------------------------------------------------------------------
(* src/src/vertex.rs                                                       *)

\* Mesh::new
Mesh_new(vertices, indices) == [vertices |-> vertices, indices |-> indices]

\* f32 NaN (0.0 * infinity)
NaN == "NaN"

\* x as f32 * (1.0 / resolution as f32); for resolution 0 the reciprocal is
\* infinite and the only grid coordinate, 0, gives 0.0 * inf = NaN
GridCoord(x, resolution) ==
    IF resolution = 0 THEN NaN ELSE x * (U \div resolution)

PlaneVertex(x, y, resolution) ==
    [pos |-> <<GridCoord(x, resolution), GridCoord(y, resolution), 0, U>>,
     color |-> <<U, U, U, U>>,
     normal |-> <<0, 0, U, U>>,
     tex_coords |-> <<GridCoord(x, resolution), GridCoord(y, resolution)>>]

\* faulty cell indices: idx_1 and idx_2 change places in both triangles
PlaneCellIndices_clockwise(x, y, resolution) ==
    LET idx_0 == y * (resolution + 1) + x
        idx_1 == idx_0 + 1
        idx_2 == (y + 1) * (resolution + 1) + x
        idx_3 == idx_2 + 1
    IN  <<idx_0, idx_1, idx_2, idx_2, idx_1, idx_3>>

\* the six indices of grid cell (x, y)
PlaneCellIndices(x, y, resolution) ==
    LET idx_0 == y * (resolution + 1) + x
        idx_1 == idx_0 + 1
        idx_2 == (y + 1) * (resolution + 1) + x
        idx_3 == idx_2 + 1
    IN  <<idx_0, idx_2, idx_1, idx_2, idx_3, idx_1>>

\* a faulty grid: as many points per side as cells
GridPoints_cells(resolution) == resolution

\* the end of the vertex ranges 0..(resolution + 1): points per grid side
GridPoints(resolution) == resolution + 1

\* (0..(resolution + 1)).map(move |y| ...) for one x, from y on
RECURSIVE PlaneColumn(_, _, _)
PlaneColumn(x, y, resolution) ==
    IF y >= GridPoints(resolution) THEN <<>>
    ELSE <<PlaneVertex(x, y, resolution)>> \o PlaneColumn(x, y + 1, resolution)

\* (0..(resolution + 1)).flat_map(|x| ...), from x on: vertices_raw
RECURSIVE PlaneVertices(_, _)
PlaneVertices(x, resolution) ==
    IF x >= GridPoints(resolution) THEN <<>>
    ELSE PlaneColumn(x, 0, resolution) \o PlaneVertices(x + 1, resolution)

\* (0..resolution).flat_map(move |y| ...) for one x, from y on
RECURSIVE PlaneColumnIndices(_, _, _)
PlaneColumnIndices(x, y, resolution) ==
    IF y >= resolution THEN <<>>
    ELSE PlaneCellIndices(x, y, resolution) \o PlaneColumnIndices(x, y + 1, resolution)

\* (0..resolution).flat_map(|x| ...), from x on: indices
RECURSIVE PlaneIndices(_, _)
PlaneIndices(x, resolution) ==
    IF x >= resolution THEN <<>>
    ELSE PlaneColumnIndices(x, 0, resolution) \o PlaneIndices(x + 1, resolution)

generate_plane(m, resolution) ==
    [vertices |-> m.vertices \o PlaneVertices(0, resolution),
     indices |-> m.indices \o PlaneIndices(0, resolution)]

CubeVertex(pos, normal, tex_coords) ==
    [pos |-> pos, color |-> <<U, U, U, U>>, normal |-> normal,
     tex_coords |-> tex_coords]

vertex_data ==
    <<
      CubeVertex(<<-U, -U, U, U>>, <<0, 0, U, U>>, <<0, 0>>),
      CubeVertex(<<U, -U, U, U>>, <<0, 0, U, U>>, <<U, 0>>),
      CubeVertex(<<U, U, U, U>>, <<0, 0, U, U>>, <<0, U>>),
      CubeVertex(<<-U, U, U, U>>, <<0, 0, U, U>>, <<U, U>>),
      CubeVertex(<<-U, U, -U, U>>, <<0, 0, -U, U>>, <<0, 0>>),
      CubeVertex(<<U, U, -U, U>>, <<0, 0, -U, U>>, <<U, 0>>),
      CubeVertex(<<U, -U, -U, U>>, <<0, 0, -U, U>>, <<0, U>>),
      CubeVertex(<<-U, -U, -U, U>>, <<0, 0, -U, U>>, <<U, U>>),
      CubeVertex(<<U, -U, -U, U>>, <<U, 0, 0, U>>, <<0, 0>>),
      CubeVertex(<<U, U, -U, U>>, <<U, 0, 0, U>>, <<U, 0>>),
      CubeVertex(<<U, U, U, U>>, <<U, 0, 0, U>>, <<0, U>>),
      CubeVertex(<<U, -U, U, U>>, <<U, 0, 0, U>>, <<U, U>>),
      CubeVertex(<<-U, -U, U, U>>, <<-U, 0, 0, U>>, <<0, 0>>),
      CubeVertex(<<-U, U, U, U>>, <<-U, 0, 0, U>>, <<U, 0>>),
      CubeVertex(<<-U, U, -U, U>>, <<-U, 0, 0, U>>, <<0, U>>),
      CubeVertex(<<-U, -U, -U, U>>, <<-U, 0, 0, U>>, <<U, U>>),
      CubeVertex(<<U, U, -U, U>>, <<0, U, 0, U>>, <<0, 0>>),
      CubeVertex(<<-U, U, -U, U>>, <<0, U, 0, U>>, <<U, 0>>),
      CubeVertex(<<-U, U, U, U>>, <<0, U, 0, U>>, <<0, U>>),
      CubeVertex(<<U, U, U, U>>, <<0, U, 0, U>>, <<U, U>>),
      CubeVertex(<<U, -U, U, U>>, <<0, -U, 0, U>>, <<0, 0>>),
      CubeVertex(<<-U, -U, U, U>>, <<0, -U, 0, U>>, <<U, 0>>),
      CubeVertex(<<-U, -U, -U, U>>, <<0, -U, 0, U>>, <<0, U>>),
      CubeVertex(<<U, -U, -U, U>>, <<0, -U, 0, U>>, <<U, U>>)
    >>

\* a faulty index list: the second triangle of face 0 is wound the other
\* way round
index_data_flipped ==
    <<0, 1, 2, 2, 0, 3,
      4, 5, 6, 6, 7, 4,
      8, 9, 10, 10, 11, 8,
      12, 13, 14, 14, 15, 12,
      16, 17, 18, 18, 19, 16,
      20, 21, 22, 22, 23, 20>>

index_data ==
    <<0, 1, 2, 2, 3, 0,
      4, 5, 6, 6, 7, 4,
      8, 9, 10, 10, 11, 8,
      12, 13, 14, 14, 15, 12,
      16, 17, 18, 18, 19, 16,
      20, 21, 22, 22, 23, 20>>

\* a faulty generate_cube: it replaces the mesh's contents
generate_cube_overwriting(m) ==
    [vertices |-> vertex_data, indices |-> index_data]

generate_cube(m) ==
    [vertices |-> m.vertices \o vertex_data,
     indices |-> m.indices \o index_data]

\* Mesh::to_mesh_data: the buffers are named after the mesh they hold
to_mesh_data(name, m) ==
    [vertex_buf |-> name, index_buf |-> name, index_len |-> Len(m.indices)]

----------------------------------------------------------------------------
(* src/src/app.rs: AppState                                                *)

Dims == 0..MaxDim
\* PhysicalSize<u32>
Sizes == [width : Dims, height : Dims]

\* one clock tick is half a second
TickSecs == U \div 2
\* Duration::as_secs_f32 of a number of ticks
as_secs_f32(ticks) == ticks * TickSecs

\* what Surface::get_current_texture returns: a frame or a wgpu::SurfaceError
SurfaceErrors == {"Timeout", "Outdated", "Lost", "OutOfMemory", "Other"}
AcquireResults == {"Ok"} \cup SurfaceErrors

\* a call made on the window, the surface, the device, the queue, a render
\* pass or the logger
Call(op, par) == [op |-> op, par |-> par]
NoArg == <<>>

\* the plane's resolution: 1024 in AppState::new, scaled down here
SceneResolution == 2

EmptyMesh == Mesh_new(<<>>, <<>>)
PlaneMesh == generate_plane(EmptyMesh, SceneResolution)
CubeMesh == generate_cube(EmptyMesh)

\* EntityWrapper::new
EntityWrapper(name, m, entity) ==
    [entity |-> entity, mesh_data |-> to_mesh_data(name, m)]

\* entities.iter().map(|e| e.to_entity_data()).collect()
RECURSIVE EntitiesData(_)
EntitiesData(entities) ==
    IF entities = <<>> THEN <<>>
    ELSE <<to_entity_data(Head(entities).entity)>> \o EntitiesData(Tail(entities))

create_depth_texture(config) ==
    [width |-> config.width, height |-> config.height]

\* wgpu rejects a texture with a zero dimension; an uncaptured validation
\* error panics
CreateTexturePanics(config) == config.width = 0 \/ config.height = 0

cube_pass ==
    [render_pipeline |-> "cube_render_pipeline",
     front_face |-> "Ccw", cull_mode |-> "Back",
     bind_groups |-> <<"camera_bind_group">>]
plane_pass ==
    [render_pipeline |-> "render_pipeline",
     front_face |-> "Ccw", cull_mode |-> "Back",
     bind_groups |-> <<"camera_bind_group", "light_bind_group", "material">>]

ConstructionLight == PointLight(Vec4(0, 2 * U, 0, U), Vec3(U, U, U))

\* does AppState::new panic for a window of this inner size
NewPanics(size) ==
    \/ PerspectivePanics(Aspect(size.width, size.height))
    \/ CreateTexturePanics(size)

\* AppState::new, for a window of inner size `size`, at clock reading t
AppState_new(size, t) ==
    LET surface_config == [width |-> size.width, height |-> size.height]
        plane_entity == Entity("plane", VZero, QuatFromAngleX(-90 * U),
                               Vec3(2 * U, 2 * U, 2 * U))
        plane_entity_wrapper == EntityWrapper("plane", PlaneMesh, plane_entity)
        cube_entity == Entity("cube", VZero, QuatOne,
                              Vec3(U \div 100, U \div 100, U \div 100))
        cube_entity_wrapper == EntityWrapper("cube", CubeMesh, cube_entity)
        camera_wrapper == DefaultCameraWrapper
        camera_uniform_data ==
            get_camera_uniform_data(camera_wrapper,
                Aspect(surface_config.width, surface_config.height),
                U \div 10, 100 * U)
        entities == <<cube_entity_wrapper, plane_entity_wrapper>>
    IN  [surface |-> [configured |-> FALSE, width |-> 0, height |-> 0],
         surface_config |-> surface_config,
         is_surface_configured |-> FALSE,
         passes |-> <<cube_pass, plane_pass>>,
         start_time |-> t,
         entities |-> entities,
         camera_wrapper |-> camera_wrapper,
         depth_texture |-> create_depth_texture(surface_config),
         camera_uniform_buffer |-> camera_uniform_data,
         point_light_uniform_buffer |-> to_uniform_data(ConstructionLight),
         entities_data_buffer |-> EntitiesData(entities)]

\* a faulty resize: the requested size is stored as it comes
resize_unclamped(st, size) ==
    LET config == [width |-> size.width, height |-> size.height]
    IN  [st |-> [st EXCEPT !.surface_config = config,
                           !.surface = [configured |-> TRUE, width |-> config.width,
                                        height |-> config.height],
                           !.is_surface_configured = TRUE,
                           !.depth_texture = create_depth_texture(config)],
         calls |-> <<Call("surface.configure", config),
                     Call("create_depth_texture", config)>>]

\* a faulty resize: is_surface_configured is left as it was
resize_unflagged(st, size) ==
    LET config == [width |-> Max(size.width, 1), height |-> Max(size.height, 1)]
    IN  [st |-> [st EXCEPT !.surface_config = config,
                           !.surface = [configured |-> TRUE, width |-> config.width,
                                        height |-> config.height],
                           !.depth_texture = create_depth_texture(config)],
         calls |-> <<Call("surface.configure", config),
                     Call("create_depth_texture", config)>>]

\* a faulty resize: the depth texture is left as it was
resize_keeping_depth(st, size) ==
    LET config == [width |-> Max(size.width, 1), height |-> Max(size.height, 1)]
    IN  [st |-> [st EXCEPT !.surface_config = config,
                           !.surface = [configured |-> TRUE, width |-> config.width,
                                        height |-> config.height],
                           !.is_surface_configured = TRUE],
         calls |-> <<Call("surface.configure", config)>>]

\* AppState::resize: the state after it and the calls it makes
resize(st, size) ==
    LET width == Max(size.width, 1)
        height == Max(size.height, 1)
        config == [width |-> width, height |-> height]
    IN  [st |-> [st EXCEPT !.surface_config = config,
                           !.surface = [configured |-> TRUE, width |-> config.width,
                                        height |-> config.height],
                           !.is_surface_configured = TRUE,
                           !.depth_texture = create_depth_texture(config)],
         calls |-> <<Call("surface.configure", config),
                     Call("create_depth_texture", config)>>]

\* faulty pass commands: every pass draws entity 0
PassCalls_first_entity(st, i) ==
    LET pass == Nth(st.passes, i)
        entity == Nth(st.entities, 0)
        size_of_EntityData == 128
    IN  <<Call("set_pipeline", pass.render_pipeline)>>
        \o [k \in 1..Len(pass.bind_groups) |->
               Call("set_bind_group", [slot |-> k - 1, group |-> pass.bind_groups[k]])]
        \o <<Call("set_vertex_buffer", [slot |-> 0, buf |-> entity.mesh_data.vertex_buf]),
             Call("set_vertex_buffer",
                  [slot |-> 1, buf |-> "entities_data_buffer",
                   from |-> size_of_EntityData * i,
                   to |-> size_of_EntityData * (i + 1)]),
             Call("set_index_buffer", entity.mesh_data.index_buf),
             Call("draw_indexed",
                  [indices |-> <<0, entity.mesh_data.index_len>>, base_vertex |-> 0,
                   instances |-> <<0, 1>>])>>

\* the commands of pass i of AppState::render
PassCalls(st, i) ==
    LET pass == Nth(st.passes, i)
        entity == Nth(st.entities, i)
        size_of_EntityData == 128
    IN  <<Call("set_pipeline", pass.render_pipeline)>>
        \o [k \in 1..Len(pass.bind_groups) |->
               Call("set_bind_group", [slot |-> k - 1, group |-> pass.bind_groups[k]])]
        \o <<Call("set_vertex_buffer", [slot |-> 0, buf |-> entity.mesh_data.vertex_buf]),
             Call("set_vertex_buffer",
                  [slot |-> 1, buf |-> "entities_data_buffer",
                   from |-> size_of_EntityData * i,
                   to |-> size_of_EntityData * (i + 1)]),
             Call("set_index_buffer", entity.mesh_data.index_buf),
             Call("draw_indexed",
                  [indices |-> <<0, entity.mesh_data.index_len>>, base_vertex |-> 0,
                   instances |-> <<0, 1>>])>>

RECURSIVE AllPassCalls(_, _)
AllPassCalls(st, i) ==
    IF i >= Len(st.passes) THEN <<>>
    ELSE PassCalls(st, i) \o AllPassCalls(st, i + 1)

\* AppState::render past its early return, when get_current_texture
\* answers acq: the result and the calls made
RenderFrame(st, acq) ==
    LET first == <<Call("window.request_redraw", NoArg)>>
    IN  IF acq # "Ok"
        THEN [result |-> acq,
              calls |-> first \o <<Call("surface.get_current_texture", acq)>>]
        ELSE [result |-> "Ok",
              calls |-> first
                  \o <<Call("surface.get_current_texture", acq),
                       Call("create_view", NoArg),
                       Call("create_command_encoder", NoArg),
                       Call("begin_render_pass",
                            [depth |-> st.depth_texture,
                             color |-> [width |-> st.surface.width,
                                        height |-> st.surface.height]])>>
                  \o AllPassCalls(st, 0)
                  \o <<Call("end_render_pass", NoArg),
                       Call("queue.submit", NoArg),
                       Call("output.present", NoArg)>>]

\* a faulty render: the redraw is requested after the early return
render_requesting_late(st, acq) ==
    IF ~st.is_surface_configured
    THEN [result |-> "Ok", calls |-> <<>>]
    ELSE RenderFrame(st, acq)

\* a faulty render: the early return on is_surface_configured is missing
render_unguarded(st, acq) == RenderFrame(st, acq)

\* AppState::render, when get_current_texture answers acq (if it is asked):
\* the result and the calls made
render(st, acq) ==
    IF ~st.is_surface_configured
    THEN [result |-> "Ok", calls |-> <<Call("window.request_redraw", NoArg)>>]
    ELSE RenderFrame(st, acq)

\* the light AppState::update computes at clock reading t
OrbitLight(st, t) ==
    LET time_since_start == t - st.start_time
        angle == DegToRad(FRem(100 * as_secs_f32(time_since_start), 360 * U))
        sn == Sin(angle)
        cs == Cos(angle)
    IN  PointLight(Vec4(FMul(sn, U \div 2) + (3 * U) \div 2, U \div 5,
                        FMul(cs, U \div 2) - (3 * U) \div 2, U),
                   Vec3((3 * U) \div 10, (3 * U) \div 10, (3 * U) \div 10))

\* does AppState::update panic (in cgmath::perspective)
UpdatePanics(st) ==
    PerspectivePanics(Aspect(st.surface_config.width, st.surface_config.height))

\* faulty entities: update moves every entity to the light
RECURSIVE MovedEntities(_, _)
MovedEntities(entities, pos) ==
    IF entities = <<>> THEN <<>>
    ELSE <<update_entity_position(Head(entities), pos)>> \o MovedEntities(Tail(entities), pos)
UpdatedEntities_all(st, point_light) ==
    MovedEntities(st.entities, Xyz(point_light.position))

\* the entities after update re-parents entity 0 to the light
UpdatedEntities(st, point_light) ==
    <<update_entity_position(Nth(st.entities, 0), Xyz(point_light.position))>>
    \o Tail(st.entities)

\* faulty instance records: built before entity 0 was moved
StaleEntitiesData(st, point_light) == EntitiesData(st.entities)

\* the instance records update uploads
UpdatedEntitiesData(st, point_light) ==
    EntitiesData(UpdatedEntities(st, point_light))

\* what AppState::update leaves, given the values it computes on the way
Updated(st, dt, point_light_uniform_data, position, entities, entities_data, camera_wrapper, camera_uniform_data) ==
    [st |-> [st EXCEPT !.point_light_uniform_buffer = point_light_uniform_data,
                       !.entities = entities,
                       !.entities_data_buffer = entities_data,
                       !.camera_wrapper = camera_wrapper,
                       !.camera_uniform_buffer = camera_uniform_data],
     calls |-> <<Call("queue.write_buffer",
                      [buf |-> "point_light_uniform_buffer", offset |-> 0,
                       data |-> point_light_uniform_data]),
                 Call("update_entity_position", position),
                 Call("queue.write_buffer",
                      [buf |-> "entities_data_buffer", offset |-> 0,
                       data |-> entities_data]),
                 Call("camera_wrapper.update", dt),
                 Call("queue.write_buffer",
                      [buf |-> "camera_uniform_buffer", offset |-> 0,
                       data |-> camera_uniform_data])>>]

\* a faulty update: the camera uniform is computed before the rig is advanced
UpdateWith_stale_camera(st, dt, point_light, camera_wrapper) ==
    Updated(st, dt,
            to_uniform_data(point_light),
            Xyz(point_light.position),
            UpdatedEntities(st, point_light),
            UpdatedEntitiesData(st, point_light),
            camera_wrapper,
            get_camera_uniform_data(st.camera_wrapper,
                Aspect(st.surface_config.width, st.surface_config.height),
                U \div 10, 100 * U))

UpdateWith(st, dt, point_light, camera_wrapper) ==
    Updated(st, dt,
            to_uniform_data(point_light),
            Xyz(point_light.position),
            UpdatedEntities(st, point_light),
            UpdatedEntitiesData(st, point_light),
            camera_wrapper,
            get_camera_uniform_data(camera_wrapper,
                Aspect(st.surface_config.width, st.surface_config.height),
                U \div 10, 100 * U))

\* AppState::update at clock reading t with frame time dt (ticks):
\* the state after it and the calls it makes
update(st, t, dt) ==
    UpdateWith(st, dt, OrbitLight(st, t),
               update_camera(st.camera_wrapper, as_secs_f32(dt)))

----------------------------------------------------------------------------
(* src/src/app.rs and src/src/main.rs: the process and its event loop      *)

\* Option<AppState>
None == [some |-> FALSE]
Some(v) == [some |-> TRUE, v |-> v]

\* the key codes and raw mouse deltas (pixels, units of 1/U) delivered to
\* the event loop
AppKeyCodes == {"KeyQ", "Escape"}
AppMouseDeltas == {[dx |-> U, dy |-> 0]}
\* the answer of window.inner_size() where it is not asked
NoSize == [width |-> 0, height |-> 0]

\* what can fail in App::resumed before AppState exists
ResumeFailures ==
    {"create_window", "set_cursor_grab", "create_surface", "request_adapter",
     "request_device", "texture_from_bytes"}

Event(kind, arg, calls) == [kind |-> kind, arg |-> arg, calls |-> calls]

\* the loop is delivering events: it stops once event_loop.exit() was called
Running == proc.pc = "running" /\ ~proc.exiting
\* the window exists once resumed has created it; window events are its events
WindowOpen == Running /\ app.state.some

\* a panic on the main thread: the message goes to standard error and the
\* process ends with status 101
Panicked(p) ==
    [p EXCEPT !.pc = "exited", !.exit_status = 101,
              !.stderr = Append(@, "panic"), !.exiting = FALSE]

\* main returning after run() returned Err(e): eprintln!("{e}"), then the
\* process ends with the status of a main that returned normally
MainAfterErr(p) ==
    [p EXCEPT !.pc = "exited", !.exit_status = 0,
              !.stderr = Append(@, "error")]

\* main returning after run() returned Ok
MainAfterOk(p) ==
    [p EXCEPT !.pc = "exited", !.exit_status = 0, !.exiting = FALSE]

\* event_loop.exit()
ExitRequested(p) == [p EXCEPT !.exiting = TRUE]

\* main -> run: EventLoop::build either fails (run returns Err) or the loop
\* starts with App::init()
Run ==
    /\ proc.pc = "start"
    /\ \E built \in BOOLEAN :
        IF built
        THEN /\ proc' = [proc EXCEPT !.pc = "running"]
             /\ app' = [state |-> None, last_time |-> now]
             /\ ev' = Event("run", "Ok", <<>>)
        ELSE /\ proc' = MainAfterErr(proc)
             /\ ev' = Event("run", "Err", <<>>)
             /\ UNCHANGED app
    /\ UNCHANGED <<now, meshVars, rigVars, entVars>>

\* the clock advances
Tick ==
    /\ proc.pc # "exited"
    /\ now < MaxTicks
    /\ now' = now + 1
    /\ UNCHANGED <<proc, app, ev, meshVars, rigVars, entVars>>

\* App::resumed: every failure is an unwrap() that panics.  The event loop
\* of a desktop platform delivers Resumed once, when it starts.
Resumed ==
    /\ Running
    /\ ~app.state.some
    /\ \E outcome \in {"Ok"} \cup ResumeFailures, size \in Sizes :
        IF outcome = "Ok" /\ ~NewPanics(size)
        THEN /\ app' = [app EXCEPT !.state = Some(AppState_new(size, now))]
             /\ ev' = Event("resumed", [outcome |-> "Ok", size |-> size], <<>>)
             /\ UNCHANGED proc
        ELSE /\ proc' = Panicked(proc)
             /\ ev' = Event("resumed",
                            [outcome |-> IF outcome = "Ok" THEN "AppState_new"
                                         ELSE outcome,
                             size |-> size], <<>>)
             /\ UNCHANGED app
    /\ UNCHANGED <<now, meshVars, rigVars, entVars>>

\* WindowEvent::CloseRequested
CloseRequested ==
    /\ WindowOpen
    /\ proc' = ExitRequested(proc)
    /\ ev' = Event("CloseRequested", NoArg, <<Call("event_loop.exit", NoArg)>>)
    /\ UNCHANGED <<now, app, meshVars, rigVars, entVars>>

\* WindowEvent::Resized(size)
Resized ==
    /\ WindowOpen
    /\ \E size \in Sizes :
        LET r == resize(app.state.v, size)
        IN  /\ app' = [app EXCEPT !.state = Some(r.st)]
            /\ ev' = Event("Resized", size, r.calls)
    /\ UNCHANGED <<proc, now, meshVars, rigVars, entVars>>

\* a faulty match on render's result: Lost and Outdated are only logged
AfterRender_logging_all(st, result, inner) ==
    IF result # "Ok"
    THEN [st |-> st, calls |-> <<Call("log::error", result)>>]
    ELSE [st |-> st, calls |-> <<>>]

\* a faulty match on render's result: every error leads to a resize
AfterRender_resizing_all(st, result, inner) ==
    IF result # "Ok"
    THEN [st |-> resize(st, inner).st,
          calls |-> <<Call("window.inner_size", inner)>> \o resize(st, inner).calls]
    ELSE [st |-> st, calls |-> <<>>]

\* what follows state.render() in the RedrawRequested arm, for render's
\* result on state st when the window's inner size is `inner`
AfterRender(st, result, inner) ==
    IF result \in {"Lost", "Outdated"}
    THEN LET r == resize(st, inner)
         IN  [st |-> r.st,
              calls |-> <<Call("window.inner_size", inner)>> \o r.calls]
    ELSE IF result # "Ok"
    THEN [st |-> st, calls |-> <<Call("log::error", result)>>]
    ELSE [st |-> st, calls |-> <<>>]

\* the answers of Surface::get_current_texture and window.inner_size() a
\* redraw on state st can meet: the surface is asked only when configured,
\* the window only after Lost or Outdated
RedrawInputs(st) ==
    {i \in [acq : IF st.is_surface_configured THEN AcquireResults ELSE {"none"},
            inner : Sizes] :
        i.acq \in {"Lost", "Outdated"} \/ i.inner = NoSize}

\* a faulty RedrawRequested arm: render is called before update
RedrawOutcome_render_first(dt, acq, u, r, a) ==
    [panic |-> FALSE,
     state |-> Some(a.st),
     ev |-> Event("RedrawRequested",
                  [acq |-> acq, result |-> r.result, dt |-> dt],
                  r.calls \o u.calls \o a.calls)]

\* what the RedrawRequested arm leaves when update left u, render answered r
\* and the rest of the arm left a
RedrawOutcome(dt, acq, u, r, a) ==
    [panic |-> FALSE,
     state |-> Some(a.st),
     ev |-> Event("RedrawRequested",
                  [acq |-> acq, result |-> r.result, dt |-> dt],
                  u.calls \o r.calls \o a.calls)]
RedrawRendered(dt, acq, inner, u, r) ==
    RedrawOutcome(dt, acq, u, r, AfterRender(u.st, r.result, inner))
RedrawUpdated(dt, u, inputs) ==
    {RedrawRendered(dt, in.acq, in.inner, u, render(u.st, in.acq)) : in \in inputs}

\* the RedrawRequested arm of App::window_event on state st at clock
\* reading t with frame time dt: what it leaves for each answer of
\* Surface::get_current_texture and of window.inner_size()
RedrawOutcomes(st, t, dt) ==
    IF UpdatePanics(st)
    THEN {[panic |-> TRUE,
           state |-> Some(st),
           ev |-> Event("RedrawRequested",
                        [acq |-> "none", result |-> "panic", dt |-> dt], <<>>)]}
    ELSE RedrawUpdated(dt, update(st, t, dt), RedrawInputs(st))

\* WindowEvent::RedrawRequested
RedrawRequested ==
    /\ WindowOpen
    /\ \E o \in RedrawOutcomes(app.state.v, now, now - app.last_time) :
        /\ app' = [state |-> o.state, last_time |-> now]
        /\ ev' = o.ev
        /\ proc' = IF o.panic THEN Panicked(proc) ELSE proc
    /\ UNCHANGED <<now, meshVars, rigVars, entVars>>

\* a faulty match on the key: Escape exits on release too
ExitKey_any_state(code, pressed) == code = "Escape"

\* (KeyCode::Escape, true) => event_loop.exit()
ExitKey(code, pressed) == code = "Escape" /\ pressed

\* WindowEvent::KeyboardInput with a PhysicalKey::Code
KeyboardInput ==
    /\ WindowOpen
    /\ \E code \in AppKeyCodes, pressed \in BOOLEAN :
        LET st == app.state.v
            c == handle_keyboard(st.camera_wrapper.camera_controller, code, pressed)
            exits == ExitKey(code, pressed)
        IN  /\ app' = [app EXCEPT !.state =
                         Some([st EXCEPT !.camera_wrapper.camera_controller = c])]
            /\ proc' = IF exits THEN ExitRequested(proc) ELSE proc
            /\ ev' = Event("KeyboardInput", [code |-> code, pressed |-> pressed],
                           IF exits THEN <<Call("event_loop.exit", NoArg)>> ELSE <<>>)
    /\ UNCHANGED <<now, meshVars, rigVars, entVars>>

\* any other window event (a key without a key code, focus, cursor, ...)
OtherWindowEvent ==
    /\ WindowOpen
    /\ ev.kind # "OtherWindowEvent"
    /\ ev' = Event("OtherWindowEvent", NoArg, <<>>)
    /\ UNCHANGED <<proc, now, app, meshVars, rigVars, entVars>>

\* DeviceEvent::MouseMotion; device events also arrive before resumed
MouseMotion ==
    /\ Running
    /\ \E d \in AppMouseDeltas :
        /\ app' = IF app.state.some
                  THEN [app EXCEPT !.state.v.camera_wrapper.camera_controller =
                                        handle_mouse_motion(@, d.dx, d.dy)]
                  ELSE app
        /\ ev' = Event("MouseMotion", d, <<>>)
    /\ UNCHANGED <<proc, now, meshVars, rigVars, entVars>>

\* the loop ends after event_loop.exit(): run_app and run return Ok
LoopExit ==
    /\ proc.pc = "running"
    /\ proc.exiting
    /\ proc' = MainAfterOk(proc)
    /\ ev' = Event("loop_exit", NoArg, <<>>)
    /\ UNCHANGED <<now, app, meshVars, rigVars, entVars>>

InitProc == [pc |-> "start", exit_status |-> -1, stderr |-> <<>>, exiting |-> FALSE]
InitMesh == EmptyMesh
InitGen == [op |-> "new", resolution |-> 0, calls |-> 0, before |-> EmptyMesh]
\* CameraWrapper::default(), nothing called on it yet
InitRig == DefaultCameraWrapper
InitTrail == [op |-> "default", arg |-> NoArg, calls |-> 0, pending |-> <<>>]
\* the cube entity of AppState::new
InitEnt == EntityRecord(Entity("cube", VZero, QuatOne, Vec3(U \div 100, U \div 100, U \div 100)))

Init ==
    /\ proc = InitProc
    /\ now = 0
    /\ app = [state |-> None, last_time |-> 0]
    /\ ev = Event("none", NoArg, <<>>)
    /\ mesh = InitMesh
    /\ gen = InitGen
    /\ rig = InitRig
    /\ trail = InitTrail
    /\ ent = InitEnt

Next ==
    \/ Run
    \/ Tick
    \/ Resumed
    \/ CloseRequested
    \/ Resized
    \/ RedrawRequested
    \/ KeyboardInput
    \/ OtherWindowEvent
    \/ MouseMotion
    \/ LoopExit

Spec == Init /\ [][Next]_vars

\* Mesh::generate_cube on the mesh
GenerateCube ==
    /\ gen.calls < MaxCalls
    /\ mesh' = generate_cube(mesh)
    /\ gen' = [op |-> "generate_cube", resolution |-> 0,
               calls |-> gen.calls + 1, before |-> mesh]
    /\ UNCHANGED <<appVars, rigVars, entVars>>

\* Mesh::generate_plane on the mesh
GeneratePlane ==
    /\ gen.calls < MaxCalls
    /\ \E resolution \in 0..MaxRes :
        /\ mesh' = generate_plane(mesh, resolution)
        /\ gen' = [op |-> "generate_plane", resolution |-> resolution,
                   calls |-> gen.calls + 1, before |-> mesh]
    /\ UNCHANGED <<appVars, rigVars, entVars>>

NextMesh ==
    \/ GenerateCube
    \/ GeneratePlane

\* a mesh built by a sequence of generator calls
SpecMesh == Init /\ [][NextMesh]_vars

\* the raw mouse deltas and the frame times (seconds) a rig is driven with
RigMouseDeltas ==
    {[dx |-> 0, dy |-> 0], [dx |-> 4 * U, dy |-> 0], [dx |-> -4 * U, dy |-> 0],
     [dx |-> 0, dy |-> 2 * U], [dx |-> U, dy |-> -2 * U]}
RigFrameTimes == {0, U \div 2, U}

\* CameraWrapper::handle_keyboard
RigKeyboard ==
    /\ trail.calls < MaxOps
    /\ \E key \in KeyCodes, pressed \in BOOLEAN :
        /\ rig' = [rig EXCEPT !.camera_controller = handle_keyboard(@, key, pressed)]
        /\ trail' = [op |-> "handle_keyboard",
                     arg |-> [key |-> key, pressed |-> pressed],
                     calls |-> trail.calls + 1, pending |-> trail.pending]
    /\ UNCHANGED <<appVars, meshVars, entVars>>

\* CameraWrapper::handle_mouse_motion
RigMouseMotion ==
    /\ trail.calls < MaxOps
    /\ \E d \in RigMouseDeltas :
        /\ rig' = [rig EXCEPT !.camera_controller = handle_mouse_motion(@, d.dx, d.dy)]
        /\ trail' = [op |-> "handle_mouse_motion", arg |-> d,
                     calls |-> trail.calls + 1, pending |-> Append(trail.pending, d)]
    /\ UNCHANGED <<appVars, meshVars, entVars>>

\* CameraWrapper::update
RigUpdate ==
    /\ trail.calls < MaxOps
    /\ \E dt \in RigFrameTimes :
        /\ rig' = update_camera(rig, dt)
        /\ trail' = [op |-> "update", arg |-> [dt |-> dt, motions |-> trail.pending],
                     calls |-> trail.calls + 1, pending |-> <<>>]
    /\ UNCHANGED <<appVars, meshVars, entVars>>

NextRig ==
    \/ RigKeyboard
    \/ RigMouseMotion
    \/ RigUpdate

\* a camera rig driven by a sequence of key, mouse and update calls
SpecRig == Init /\ [][NextRig]_vars

\* the positions, rotations and scales given to Entity::new and to
\* update_entity_position: those of the scene and others
EntityPositions ==
    {VZero, Vec3(U, 2 * U, 3 * U), Vec3(-U, 0, U \div 2), Vec3(0, 2 * U, 0),
     Vec3(3 * U, -2 * U, U)}
EntityRotations ==
    {QuatOne, QuatFromAngleX(-90 * U), Quat(U \div 2, U \div 2, U \div 2, U \div 2)}
EntityScales ==
    {Vec3(U, U, U), Vec3(2 * U, 2 * U, 2 * U), Vec3(U \div 100, U \div 100, U \div 100),
     Vec3(U, 2 * U, 3 * U), Vec3(3 * U, U, U \div 2), Vec3(U, U, 4 * U),
     Vec3(-U, U, U)}

\* Entity::new, and the EntityData that to_entity_data gives for it
EntityNew ==
    /\ \E position \in EntityPositions, rotation \in EntityRotations, scale \in EntityScales :
         ent' = EntityRecord(Entity(ent.entity.mesh, position, rotation, scale))
    /\ UNCHANGED <<appVars, meshVars, rigVars>>

\* EntityWrapper::update_entity_position, and the EntityData that
\* to_entity_data gives after it
EntityMove ==
    /\ \E pos \in EntityPositions :
         ent' = EntityRecord(update_entity_position(ent, pos).entity)
    /\ UNCHANGED <<appVars, meshVars, rigVars>>

NextEntity ==
    \/ EntityNew
    \/ EntityMove

\* an entity that is constructed and moved
SpecEntity == Init /\ [][NextEntity]_vars

----------------------------------------------------------------------------
(* Properties of the frame loop.                                           *)

\* the operations called by a sequence of calls
CallOps(calls) == {calls[i].op : i \in DOMAIN calls}
\* how often a sequence of calls calls op
CallCount(calls, op) == Cardinality({i \in DOMAIN calls : calls[i].op = op})
\* the arguments a sequence of calls passes to op
CallPars(calls, op) ==
    {calls[i].par : i \in {j \in DOMAIN calls : calls[j].op = op}}

\* the calls of a RedrawRequested handler that follow AppState::update:
\* render starts with window.request_redraw
AfterUpdate(calls) ==
    LET first == CHOOSE i \in DOMAIN calls :
                     /\ calls[i].op = "window.request_redraw"
                     /\ \A j \in 1..(i - 1) : calls[j].op # "window.request_redraw"
    IN  SubSeq(calls, first, Len(calls))

\* this step handles a RedrawRequested event in which update did not panic
RedrawStep ==
    /\ app.state.some
    /\ ev'.kind = "RedrawRequested"
    /\ (ev.kind # "RedrawRequested" \/ ev' # ev \/ app' # app)
    /\ ev'.arg.result # "panic"

\* the acquisition, drawing and presentation calls of render
FrameOps ==
    {"surface.get_current_texture", "create_view", "create_command_encoder",
     "begin_render_pass", "set_pipeline", "draw_indexed", "end_render_pass",
     "queue.submit", "output.present"}

\* C1: a render on an unconfigured surface returns Ok and only re-requests a
\* redraw: it acquires no frame, records no draw, submits and presents
\* nothing, and no error is logged.
C1_UnconfiguredRenderSkips ==
    [][(RedrawStep /\ ~app.state.v.is_surface_configured)
       => /\ ev'.arg.result = "Ok"
          /\ AfterUpdate(ev'.calls) = <<Call("window.request_redraw", NoArg)>>
          /\ CallOps(ev'.calls) \cap (FrameOps \cup {"log::error"}) = {}]_vars

C1_Witness ==
    /\ ev.kind = "RedrawRequested"
    /\ app.state.some
    /\ ~app.state.v.is_surface_configured
    /\ ev.arg.result = "Ok"
    /\ Len(AfterUpdate(ev.calls)) = 1

\* C2: the surface is unconfigured right after AppState::new, configured
\* after every step that calls resize, and no step takes it from configured
\* back to unconfigured.
C2_SurfaceStateTransitions ==
    [][/\ (~app.state.some /\ app'.state.some)
          => ~app'.state.v.is_surface_configured
       /\ (app.state.some /\ ev' # ev /\ "surface.configure" \in CallOps(ev'.calls))
          => app'.state.v.is_surface_configured
       /\ (app.state.some /\ app.state.v.is_surface_configured)
          => (app'.state.some /\ app'.state.v.is_surface_configured)]_vars

C2_Witness ==
    /\ ev.kind = "Resized"
    /\ ev.arg = [width |-> 0, height |-> 0]
    /\ app.state.v.is_surface_configured

\* max(w, 1) x max(h, 1)
Clamped(size) == [width |-> Max(size.width, 1), height |-> Max(size.height, 1)]

\* the sizes resize was called with by the handler of the last event
ResizeRequests ==
    IF ev.kind = "Resized" THEN {ev.arg}
    ELSE IF ev.kind = "RedrawRequested" THEN CallPars(ev.calls, "window.inner_size")
    ELSE {}

\* C3: after a resize to (w, h) the surface configuration holds max(w, 1) and
\* max(h, 1), the surface was configured with exactly that configuration, and
\* no dimension of it is zero.
C3_ResizeClamps ==
    \A size \in ResizeRequests :
        /\ app.state.v.surface_config = Clamped(size)
        /\ CallPars(ev.calls, "surface.configure") = {Clamped(size)}
        /\ app.state.v.surface_config.width >= 1
        /\ app.state.v.surface_config.height >= 1
        /\ app.state.v.surface.width >= 1
        /\ app.state.v.surface.height >= 1

C3_Witness ==
    /\ ev.kind = "Resized"
    /\ ev.arg = [width |-> 0, height |-> 2]
    /\ app.state.v.surface_config = [width |-> 1, height |-> 2]

\* the last event was a redraw whose acquisition failed with Lost or Outdated
LostOrOutdated == ev.kind = "RedrawRequested" /\ ev.arg.result \in {"Lost", "Outdated"}

\* C4: a redraw whose acquisition fails with Lost or Outdated asks the window
\* for its inner size once and calls resize once with it, in the same event;
\* nothing is submitted or presented, the loop neither exits nor panics, the
\* surface is left configured, and a redraw on a configured surface always
\* attempts acquisition.
C4_LostOutdatedResizes ==
    [][/\ (RedrawStep /\ LostOrOutdated')
          => /\ CallCount(ev'.calls, "window.inner_size") = 1
             /\ CallCount(ev'.calls, "surface.configure") = 1
             /\ \A size \in CallPars(ev'.calls, "window.inner_size") :
                 /\ CallPars(ev'.calls, "surface.configure") = {Clamped(size)}
                 /\ app'.state.v.surface_config = Clamped(size)
             /\ CallOps(ev'.calls) \cap {"queue.submit", "output.present",
                                         "event_loop.exit"} = {}
             /\ proc' = proc
             /\ proc'.pc = "running"
             /\ ~proc'.exiting
             /\ app'.state.v.is_surface_configured
       /\ (RedrawStep /\ app.state.v.is_surface_configured)
          => CallCount(ev'.calls, "surface.get_current_texture") = 1]_vars

C4_Witness ==
    /\ LostOrOutdated
    /\ ev.arg.result = "Lost"
    /\ CallPars(ev.calls, "window.inner_size") = {[width |-> 0, height |-> 2]}
    /\ app.state.v.surface_config = [width |-> 1, height |-> 2]

\* the acquisition errors other than Lost and Outdated
OtherErrors == SurfaceErrors \ {"Lost", "Outdated"}

\* C5: a redraw whose acquisition fails with another error logs it once,
\* submits and presents nothing, asks for no size and performs no resize,
\* leaves the state exactly as update left it (the surface state included),
\* and leaves the loop running.
C5_OtherErrorsLogged ==
    [][(RedrawStep /\ ev'.arg.result \in OtherErrors)
       => /\ CallCount(ev'.calls, "log::error") = 1
          /\ CallPars(ev'.calls, "log::error") = {ev'.arg.result}
          /\ CallOps(ev'.calls) \cap {"queue.submit", "output.present",
                                      "window.inner_size", "surface.configure",
                                      "create_depth_texture",
                                      "event_loop.exit"} = {}
          /\ app'.state = Some(update(app.state.v, now, now - app.last_time).st)
          /\ app'.state.v.is_surface_configured = app.state.v.is_surface_configured
          /\ app'.state.v.surface_config = app.state.v.surface_config
          /\ proc' = proc
          /\ proc'.pc = "running"
          /\ ~proc'.exiting]_vars

C5_Witness ==
    /\ ev.kind = "RedrawRequested"
    /\ ev.arg.result = "Timeout"
    /\ CallPars(ev.calls, "log::error") = {"Timeout"}
    /\ proc.pc = "running"

\* the last event was a close request or a press of Escape
ExitEvent ==
    \/ ev.kind = "CloseRequested"
    \/ (ev.kind = "KeyboardInput" /\ ev.arg.code = "Escape" /\ ev.arg.pressed)

\* C6: the loop has been told to exit exactly when the last event was a
\* close request or a press of Escape, whose handler called
\* event_loop.exit(); the handler of no other event calls it, and the loop
\* ends normally only after it was told to.
C6_ExitOnlyOnCloseOrEscape ==
    /\ proc.exiting <=> ExitEvent
    /\ ExitEvent <=> ("event_loop.exit" \in CallOps(ev.calls))
    /\ ev.kind = "loop_exit" => (proc.pc = "exited" /\ proc.exit_status = 0)

C6_Witness ==
    /\ ev.kind = "KeyboardInput"
    /\ ev.arg.code = "Escape"
    /\ ev.arg.pressed
    /\ proc.exiting

\* the last step was a failed startup: EventLoop::build failed in run, or
\* App::resumed failed to create the window, the surface, the adapter, the
\* device or a texture
StartupFailed ==
    \/ (ev.kind = "run" /\ ev.arg = "Err")
    \/ (ev.kind = "resumed" /\ ev.arg.outcome # "Ok")

\* C7: a startup failure prints an error and ends the process with a
\* non-zero exit status.
C7_StartupFailureExitsNonZero ==
    StartupFailed
    => /\ proc.pc = "exited"
       /\ Len(proc.stderr) > 0
       /\ proc.exit_status # 0

\* C8: after an update, the light uniform holds the orbit light of that
\* update's clock reading, entity 0 sits at the xyz of that light position,
\* and the instance record uploaded for entity 0 is the one built from that
\* position.
C8_EntityZeroFollowsLight ==
    (ev.kind = "RedrawRequested" /\ ev.arg.result # "panic")
    => LET st == app.state.v
           light == to_uniform_data(OrbitLight(st, app.last_time))
           light_write == Nth(ev.calls, 0)
           instance_write == Nth(ev.calls, 2)
           entity_0 == Nth(st.entities, 0).entity
       IN  /\ light_write.op = "queue.write_buffer"
           /\ light_write.par.buf = "point_light_uniform_buffer"
           /\ light_write.par.data = light
           /\ st.point_light_uniform_buffer = light
           /\ entity_0.position = Xyz(light.pos)
           /\ instance_write.op = "queue.write_buffer"
           /\ instance_write.par.buf = "entities_data_buffer"
           /\ Nth(instance_write.par.data, 0) = to_entity_data(entity_0)
           /\ Nth(instance_write.par.data, 0).mx_model[4]
                  = <<light.pos.x, light.pos.y, light.pos.z, U>>
           /\ st.entities_data_buffer = instance_write.par.data

C8_Witness ==
    /\ ev.kind = "RedrawRequested"
    /\ ev.arg.result = "Ok"
    /\ ev.arg.dt = 1
    /\ app.last_time = 1
    /\ Nth(app.state.v.entities, 0).entity.position
           = Xyz(OrbitLight(app.state.v, 1).position)
    /\ Nth(app.state.v.entities, 0).entity.position
           # Xyz(OrbitLight(app.state.v, 0).position)

----------------------------------------------------------------------------
(* Properties of the generated meshes.                                     *)

CubeFaces == 0..5

\* the six indices generate_cube wrote for face f of a cube appended to a
\* mesh that held `held` indices
FaceIndices(m, held, f) ==
    [k \in 1..6 |-> Nth(m.indices, held + 6 * f + k - 1)]

\* C9: generate_cube appends 24 vertices and 36 indices and keeps what the
\* mesh held; on an empty mesh every index is below 24 and the indices of
\* face f lie in 4f..4f+3.
C9_CubeAppends ==
    gen.op = "generate_cube"
    => /\ Len(mesh.vertices) = Len(gen.before.vertices) + 24
       /\ Len(mesh.indices) = Len(gen.before.indices) + 36
       /\ SubSeq(mesh.vertices, 1, Len(gen.before.vertices)) = gen.before.vertices
       /\ SubSeq(mesh.indices, 1, Len(gen.before.indices)) = gen.before.indices
       /\ gen.before = EmptyMesh
          => /\ \A i \in DOMAIN mesh.indices : mesh.indices[i] \in 0..23
             /\ \A f \in CubeFaces : \A k \in 1..6 :
                    FaceIndices(mesh, 0, f)[k] \in (4 * f)..(4 * f + 3)

C9_Witness ==
    /\ gen.op = "generate_cube"
    /\ gen.before = EmptyMesh
    /\ Len(mesh.vertices) = 24
    /\ Len(mesh.indices) = 36

\* the xyz of a [f32; 4]
Xyz4(a) == Vec3(a[1], a[2], a[3])

\* (v1 - v0) x (v2 - v0) for the triangle of vertices i0, i1, i2 of mesh m
TriangleNormal(m, i0, i1, i2) ==
    VCross(VSub(Xyz4(Nth(m.vertices, i1).pos), Xyz4(Nth(m.vertices, i0).pos)),
           VSub(Xyz4(Nth(m.vertices, i2).pos), Xyz4(Nth(m.vertices, i0).pos)))

\* vectors a and b point in the same direction
SameDirection(a, b) == VCross(a, b) = VZero /\ VDot(a, b) > 0

\* the triangle i0, i1, i2 of m is counter-clockwise seen from the side its
\* vertices' stored normals point to
FrontFacing(m, i0, i1, i2) ==
    \A i \in {i0, i1, i2} :
        SameDirection(TriangleNormal(m, i0, i1, i2), Xyz4(Nth(m.vertices, i).normal))

\* C10: in a cube generated on an empty mesh both triangles of every face are
\* counter-clockwise seen from outside (their cross product points along the
\* stored normal, which points away from the cube's centre), both contain the
\* face's local vertices 0 and 2, and the cube's pipeline takes
\* counter-clockwise triangles as front faces and culls back faces.
C10_CubeWinding ==
    (gen.op = "generate_cube" /\ gen.before = EmptyMesh)
    => /\ \A f \in CubeFaces :
           LET ix == FaceIndices(mesh, 0, f)
           IN  /\ FrontFacing(mesh, ix[1], ix[2], ix[3])
               /\ FrontFacing(mesh, ix[4], ix[5], ix[6])
               /\ {4 * f, 4 * f + 2} \subseteq {ix[1], ix[2], ix[3]}
               /\ {4 * f, 4 * f + 2} \subseteq {ix[4], ix[5], ix[6]}
               /\ \A k \in 1..6 :
                      VDot(Xyz4(Nth(mesh.vertices, ix[k]).pos),
                           Xyz4(Nth(mesh.vertices, ix[k]).normal)) > 0
       /\ cube_pass.front_face = "Ccw"
       /\ cube_pass.cull_mode = "Back"

C10_Witness ==
    /\ gen.op = "generate_cube"
    /\ gen.before = EmptyMesh
    /\ \E f \in CubeFaces :
           TriangleNormal(mesh, 4 * f, 4 * f + 1, 4 * f + 2) = Vec3(0, -4 * U, 0)

\* C11: generate_plane(R) on an empty mesh yields (R+1)^2 vertices and 6*R^2
\* indices for every R, and for R = 0 one vertex and no indices.
C11_PlaneCounts ==
    (gen.op = "generate_plane" /\ gen.before = EmptyMesh)
    => /\ Len(mesh.vertices) = (gen.resolution + 1) * (gen.resolution + 1)
       /\ Len(mesh.indices) = 6 * gen.resolution * gen.resolution
       /\ gen.resolution = 0 => (Len(mesh.vertices) = 1 /\ mesh.indices = <<>>)

C11_Witness ==
    /\ gen.op = "generate_plane"
    /\ gen.before = EmptyMesh
    /\ gen.resolution = 0
    /\ Len(mesh.vertices) = 1
    /\ mesh.vertices[1].pos[1] = NaN

----------------------------------------------------------------------------
(* The camera rig                                                          *)

\* the pitch bound of update_camera, FRAC_PI_2 - 0.0001
PitchBound == FRAC_PI_2 - 1

\* C12: after every CameraController update the pitch lies in
\* [-(pi/2 - 0.0001), pi/2 - 0.0001], so strictly inside (-pi/2, pi/2) and
\* never equal to +-pi/2, whatever mouse deltas and frame times came before.
C12_PitchClamped ==
    trail.op = "update"
    => /\ -PitchBound <= rig.camera.pitch
       /\ rig.camera.pitch <= PitchBound
       /\ -FRAC_PI_2 < rig.camera.pitch
       /\ rig.camera.pitch < FRAC_PI_2

\* an update whose unclamped pitch (2 rad) lay beyond the bound
C12_Witness ==
    /\ trail.op = "update"
    /\ trail.arg.dt = U
    /\ rig.camera.pitch = PitchBound
    /\ rig.camera_controller.rotate_vertical = 0

\* C13: after every update the yaw is in [0, 2*pi), whatever the starting
\* yaw and the sign of the horizontal rotation.
C13_YawInRange ==
    trail.op = "update"
    => (0 <= rig.camera.yaw /\ rig.camera.yaw < TWO_PI)

\* a step of the rig that is a call of update
RigUpdateStep == trail'.calls = trail.calls + 1 /\ trail'.op = "update"

\* speed * dt * ((forward - backward) * front + (right - left) * right)
ClaimedMove(cam, c, dt) ==
    VScale(VAdd(VScale(cam.front, c.forward - c.backward),
                VScale(cam.right, c.right - c.left)),
           FMul(c.speed, dt))

\* equal up to the rounding of two multiplications taken in another order
Near(a, b) ==
    /\ Abs(a.x - b.x) <= 2
    /\ Abs(a.y - b.y) <= 2
    /\ Abs(a.z - b.z) <= 2

\* C14: update(dt) moves the position by
\* speed * dt * ((forward - backward) * front + (right - left) * right) with
\* the front and right held before this update's rotation; the default camera
\* with only forward pressed and dt = 1 s moves exactly 2.5 along front
\* (0, 0, -1); with forward and backward both pressed nothing moves along
\* front.
C14_MoveAlongOldBasis ==
    [][RigUpdateStep =>
        /\ Near(VSub(rig'.camera.position, rig.camera.position),
                ClaimedMove(rig.camera, rig.camera_controller, trail'.arg.dt))
        /\ (/\ rig.camera = DefaultCamera
            /\ rig.camera_controller = [DefaultCameraController EXCEPT !.forward = U]
            /\ trail'.arg.dt = U)
           => rig'.camera.position = Vec3(0, 0, -((5 * U) \div 2))
        /\ (/\ rig.camera_controller.forward = U
            /\ rig.camera_controller.backward = U
            /\ rig.camera_controller.right = rig.camera_controller.left)
           => rig'.camera.position = rig.camera.position]_vars

\* forward held while the camera turned to the side, then a further turn and
\* an update of one second: the camera has left the z axis along the front it
\* held before that update
C14_Witness ==
    /\ trail.op = "update"
    /\ trail.arg.dt = U
    /\ trail.calls = 4
    /\ rig.camera_controller.forward = U
    /\ rig.camera_controller.backward = 0
    /\ rig.camera.position.x # 0
    /\ rig.camera.position.y = 0

\* a step of the rig that is a call of handle_keyboard
RigKeyboardStep == trail'.calls = trail.calls + 1 /\ trail'.op = "handle_keyboard"

\* the directional flags and the flag the claim gives each key
Flags == {"forward", "backward", "left", "right"}
FlagOf(key) ==
    CASE key = "KeyW" -> "forward"
      [] key = "KeyS" -> "backward"
      [] key = "KeyA" -> "left"
      [] key = "KeyD" -> "right"
      [] OTHER -> "none"

\* C15: handle_keyboard sets exactly the flag of a recognised key (W forward,
\* S backward, A left, D right) to 1 on press and 0 on release and changes
\* nothing else; any other key changes nothing; each flag is always 0 or 1.
C15_KeyboardFlags ==
    /\ [](\A f \in Flags : rig.camera_controller[f] \in {0, U})
    /\ [][RigKeyboardStep =>
            /\ rig'.camera = rig.camera
            /\ \A f \in DOMAIN rig.camera_controller :
                 rig'.camera_controller[f] =
                     IF f = FlagOf(trail'.arg.key)
                     THEN (IF trail'.arg.pressed THEN U ELSE 0)
                     ELSE rig.camera_controller[f]
            /\ FlagOf(trail'.arg.key) = "none" => rig' = rig]_vars

\* D released while W is still held
C15_Witness ==
    /\ trail.op = "handle_keyboard"
    /\ trail.arg.key = "KeyD"
    /\ ~trail.arg.pressed
    /\ trail.calls = 3
    /\ rig.camera_controller.right = 0
    /\ rig.camera_controller.forward = U

\* a step of the rig that is a call of handle_mouse_motion
RigMouseStep == trail'.calls = trail.calls + 1 /\ trail'.op = "handle_mouse_motion"

\* the last of the motion events since the previous update, none being no
\* rotation
LastDelta(motions) ==
    IF motions = <<>> THEN [dx |-> 0, dy |-> 0] ELSE motions[Len(motions)]

\* C16: handle_mouse_motion overwrites the pending delta, so of several motion
\* events between two updates only the last one rotates the camera in the next
\* update.
C16_LastDeltaWins ==
    [][/\ RigMouseStep =>
            /\ rig'.camera_controller.rotate_horizontal = trail'.arg.dx
            /\ rig'.camera_controller.rotate_vertical = trail'.arg.dy
            /\ rig'.camera = rig.camera
            /\ \A f \in DOMAIN rig.camera_controller \ {"rotate_horizontal", "rotate_vertical"} :
                 rig'.camera_controller[f] = rig.camera_controller[f]
       /\ RigUpdateStep =>
            /\ rig'.camera.yaw =
                   FRem(rig.camera.yaw + FMul(LastDelta(trail.pending).dx, trail'.arg.dt), TWO_PI)
            /\ rig'.camera.pitch =
                   Clamp(rig.camera.pitch - FMul(LastDelta(trail.pending).dy, trail'.arg.dt),
                         -PitchBound, PitchBound)]_vars

\* two motion events, a horizontal one and then a vertical one, and an update
\* of one second: the yaw is the default one still, the pitch is at its bound
C16_Witness ==
    /\ trail.op = "update"
    /\ trail.arg.dt = U
    /\ trail.calls = 3
    /\ trail.arg.motions = <<[dx |-> 4 * U, dy |-> 0], [dx |-> 0, dy |-> 2 * U]>>
    /\ rig.camera.yaw = DefaultCamera.yaw
    /\ rig.camera.pitch = -PitchBound

----------------------------------------------------------------------------
(* Entities                                                                *)

\* C17: the model matrix is translation * scale * rotation: its translation
\* column is the position, unscaled, and its other columns are those of the
\* rotation matrix with row r scaled by the scale's component r; position
\* (1, 2, 3) with identity rotation and scale 1 gives the pure translation,
\* zero position with identity rotation and scale (2, 2, 2) gives
\* diag(2, 2, 2, 1).
C17_ModelMatrix ==
    LET e == ent.entity
        M == ent.data.mx_model
        R == ent.data.mx_normal
    IN  /\ M[4] = <<e.position.x, e.position.y, e.position.z, U>>
        /\ \A c \in 1..3 :
             M[c] = <<FMul(e.scale.x, R[c][1]), FMul(e.scale.y, R[c][2]),
                      FMul(e.scale.z, R[c][3]), 0>>
        /\ (e.position = Vec3(U, 2 * U, 3 * U) /\ e.rotation = QuatOne /\ e.scale = Vec3(U, U, U))
           => M = <<<<U, 0, 0, 0>>, <<0, U, 0, 0>>, <<0, 0, U, 0>>, <<U, 2 * U, 3 * U, U>>>>
        /\ (e.position = VZero /\ e.rotation = QuatOne /\ e.scale = Vec3(2 * U, 2 * U, 2 * U))
           => M = <<<<2 * U, 0, 0, 0>>, <<0, 2 * U, 0, 0>>, <<0, 0, 2 * U, 0>>, <<0, 0, 0, U>>>>

\* a moved entity with a rotation that is not the identity and a scale that
\* is not uniform
C17_Witness ==
    /\ ent.entity.position = Vec3(U, 2 * U, 3 * U)
    /\ ent.entity.rotation = Quat(U \div 2, U \div 2, U \div 2, U \div 2)
    /\ ent.entity.scale = Vec3(U, 2 * U, 3 * U)
    /\ ent.data.mx_model =
           <<<<0, 2 * U, 0, 0>>, <<0, 0, 3 * U, 0>>, <<U, 0, 0, 0>>, <<U, 2 * U, 3 * U, U>>>>

----------------------------------------------------------------------------
(* The frame                                                               *)

\* a redraw on a configured surface whose frame was acquired
Presented ==
    /\ ev.kind = "RedrawRequested"
    /\ ev.arg.acq = "Ok"
    /\ ev.arg.result = "Ok"

\* the operations of a sequence of calls, in order
OpsOf(calls) == [i \in DOMAIN calls |-> calls[i].op]

\* the commands the claim gives the cube pass and the plane pass
CubePassCommands ==
    <<Call("set_pipeline", "cube_render_pipeline"),
      Call("set_bind_group", [slot |-> 0, group |-> "camera_bind_group"]),
      Call("set_vertex_buffer", [slot |-> 0, buf |-> "cube"]),
      Call("set_vertex_buffer",
           [slot |-> 1, buf |-> "entities_data_buffer", from |-> 0, to |-> 128]),
      Call("set_index_buffer", "cube"),
      Call("draw_indexed",
           [indices |-> <<0, 36>>, base_vertex |-> 0, instances |-> <<0, 1>>])>>
PlanePassCommands ==
    <<Call("set_pipeline", "render_pipeline"),
      Call("set_bind_group", [slot |-> 0, group |-> "camera_bind_group"]),
      Call("set_bind_group", [slot |-> 1, group |-> "light_bind_group"]),
      Call("set_bind_group", [slot |-> 2, group |-> "material"]),
      Call("set_vertex_buffer", [slot |-> 0, buf |-> "plane"]),
      Call("set_vertex_buffer",
           [slot |-> 1, buf |-> "entities_data_buffer", from |-> 128, to |-> 256]),
      Call("set_index_buffer", "plane"),
      Call("draw_indexed",
           [indices |-> <<0, 6 * SceneResolution * SceneResolution>>,
            base_vertex |-> 0, instances |-> <<0, 1>>])>>

\* C18: a render on a configured surface draws pass 0 and then pass 1 inside
\* one render pass; pass i binds pipeline i, its bind groups at slots 0..n-1,
\* entity i's vertex and index buffers and the bytes [128*i, 128*(i+1)) of the
\* instance buffer and draws entity i's whole index range once with one
\* instance; pass 0 is the cube (36 indices, cube pipeline), pass 1 the plane
\* (lit, textured pipeline); submit and then present happen once each, after
\* both draws.
C18_PassOrder ==
    Presented =>
        LET calls == AfterUpdate(ev.calls)
        IN  /\ Len(calls) = 22
            /\ OpsOf(SubSeq(calls, 1, 5)) =
                   <<"window.request_redraw", "surface.get_current_texture",
                     "create_view", "create_command_encoder", "begin_render_pass">>
            /\ SubSeq(calls, 6, 11) = CubePassCommands
            /\ SubSeq(calls, 12, 19) = PlanePassCommands
            /\ OpsOf(SubSeq(calls, 20, 22)) =
                   <<"end_render_pass", "queue.submit", "output.present">>

\* a presented frame that holds the two draws, the cube's before the plane's
C18_Witness ==
    /\ Presented
    /\ app.state.v.is_surface_configured
    /\ CallCount(ev.calls, "draw_indexed") = 2
    /\ CallCount(ev.calls, "output.present") = 1
    /\ CallPars(ev.calls, "set_pipeline") = {"cube_render_pipeline", "render_pipeline"}

\* a handled redraw: update returned and render was called
Redrawn == ev.kind = "RedrawRequested" /\ ev.arg.result # "panic"

\* C19: within one AppState::update the light is recomputed and its uniform
\* written, then entity 0 is moved to the light, then all instance records are
\* recomputed and the whole instance buffer is written from offset 0, then
\* the camera rig is advanced by dt, and last the camera uniform is computed
\* from the advanced camera and written.
C19_UpdateOrder ==
    Redrawn =>
        LET st == app.state.v
            c == SubSeq(ev.calls, 1, 5)
        IN  /\ OpsOf(c) = <<"queue.write_buffer", "update_entity_position",
                            "queue.write_buffer", "camera_wrapper.update",
                            "queue.write_buffer">>
            /\ c[1].par.buf = "point_light_uniform_buffer"
            /\ c[1].par.offset = 0
            /\ c[2].par = Xyz(c[1].par.data.pos)
            /\ c[3].par.buf = "entities_data_buffer"
            /\ c[3].par.offset = 0
            /\ Len(c[3].par.data) = Len(st.entities)
            /\ c[3].par.data[1].mx_model[4] = <<c[2].par.x, c[2].par.y, c[2].par.z, U>>
            /\ c[4].par = ev.arg.dt
            /\ c[5].par.buf = "camera_uniform_buffer"
            /\ c[5].par.offset = 0
            /\ c[5].par.data.view = get_view_matrix(st.camera_wrapper.camera)
            /\ c[5].par.data.pos = ToHomogeneous(st.camera_wrapper.camera.position)
            /\ st.camera_wrapper.camera_controller.rotate_horizontal = 0

\* an update that turned the camera: the uniform written holds the new front
C19_Witness ==
    /\ Redrawn
    /\ ev.arg.dt > 0
    /\ app.state.v.camera_wrapper.camera.yaw # DefaultCamera.yaw
    /\ ev.calls[5].par.data.view.dir = app.state.v.camera_wrapper.camera.front
    /\ ev.calls[3].par.data[1].mx_model[4][2] = U \div 5

\* the outcomes of render in a handled redraw
Skipped == Redrawn /\ ev.arg.acq = "none"
FailedAcquisition == Redrawn /\ ev.arg.acq \in SurfaceErrors
RequestsOfRedraw == CallCount(ev.calls, "window.request_redraw")

\* C20: every handled redraw event re-requests a redraw exactly once, whether
\* render skipped the frame on an unconfigured surface, failed to acquire it
\* or presented it.
C20_RedrawRequestedAgain ==
    /\ Redrawn => (Skipped \/ FailedAcquisition \/ Presented)
    /\ Skipped => RequestsOfRedraw = 1
    /\ FailedAcquisition => RequestsOfRedraw = 1
    /\ Presented => RequestsOfRedraw = 1

\* a redraw whose acquisition timed out: the redraw was requested again, once
C20_Witness ==
    /\ FailedAcquisition
    /\ ev.arg.result = "Timeout"
    /\ RequestsOfRedraw = 1
    /\ ev.calls[6].op = "window.request_redraw"
    /\ CallCount(ev.calls, "output.present") = 0

----------------------------------------------------------------------------
(* The plane                                                               *)

\* a plane generated on an empty mesh, of resolution at least 1
PlaneGenerated ==
    gen.op = "generate_plane" /\ gen.before = EmptyMesh /\ gen.resolution >= 1

\* the three indices of triangle t (from 0) of mesh m
TriangleIndices(m, t) ==
    <<Nth(m.indices, 3 * t), Nth(m.indices, 3 * t + 1), Nth(m.indices, 3 * t + 2)>>

\* the xy positions of the four corners of grid cell (cx, cy) at resolution r
CellCorners(cx, cy, r) ==
    {<<GridCoord(px, r), GridCoord(py, r)>> : px \in {cx, cx + 1}, py \in {cy, cy + 1}}

\* the xy position of vertex i of mesh m
XyOf(m, i) == <<Nth(m.vertices, i).pos[1], Nth(m.vertices, i).pos[2]>>

\* the triangles of m whose three vertices are corners of grid cell (cx, cy)
TrianglesIn(m, cx, cy, r) ==
    {t \in 0..(Len(m.indices) \div 3 - 1) :
        \A k \in 1..3 : XyOf(m, TriangleIndices(m, t)[k]) \in CellCorners(cx, cy, r)}

\* C21: for R >= 1 generate_plane on an empty mesh emits two triangles per
\* grid cell, every index is below (R+1)^2, the three vertices of each
\* triangle are distinct corners of one grid cell, and each triangle is
\* counter-clockwise seen from +Z, the side of the stored normal (0, 0, 1).
C21_PlaneWinding ==
    PlaneGenerated =>
        LET R == gen.resolution
        IN  /\ Len(mesh.indices) = 3 * (2 * R * R)
            /\ \A i \in DOMAIN mesh.indices : mesh.indices[i] < (R + 1) * (R + 1)
            /\ \A cx \in 0..(R - 1), cy \in 0..(R - 1) :
                   Cardinality(TrianglesIn(mesh, cx, cy, R)) = 2
            /\ \A t \in 0..(2 * R * R - 1) :
                   LET ix == TriangleIndices(mesh, t)
                   IN  /\ Cardinality({XyOf(mesh, ix[1]), XyOf(mesh, ix[2]),
                                       XyOf(mesh, ix[3])}) = 3
                       /\ \E cx \in 0..(R - 1), cy \in 0..(R - 1) :
                              t \in TrianglesIn(mesh, cx, cy, R)
                       /\ FrontFacing(mesh, ix[1], ix[2], ix[3])
                       /\ Xyz4(Nth(mesh.vertices, ix[1]).normal) = Vec3(0, 0, U)
                       /\ TriangleNormal(mesh, ix[1], ix[2], ix[3]).z > 0

\* a plane of resolution 3: the second cell written starts at index 4, the
\* vertex placed at grid position (1, 0)
C21_Witness ==
    /\ PlaneGenerated
    /\ gen.resolution = 3
    /\ Len(mesh.indices) = 54
    /\ mesh.indices[7] = 4
    /\ XyOf(mesh, 4) = <<U \div 3, 0>>

----------------------------------------------------------------------------
(* The camera rig between updates                                          *)

\* C22: every update resets both pending mouse deltas to zero and leaves the
\* four directional flags as they are; an update with no motion event since
\* the update before it keeps yaw and pitch; a held direction key moves the
\* camera on every update of positive frame time.
C22_DeltasReset ==
    [][RigUpdateStep =>
        /\ rig'.camera_controller.rotate_horizontal = 0
        /\ rig'.camera_controller.rotate_vertical = 0
        /\ \A f \in Flags : rig'.camera_controller[f] = rig.camera_controller[f]
        /\ (trail.op = "update" \/ trail.pending = <<>>)
           => /\ rig'.camera.yaw = rig.camera.yaw
              /\ rig'.camera.pitch = rig.camera.pitch
        /\ (/\ trail'.arg.dt > 0
            /\ \/ rig.camera_controller.forward # rig.camera_controller.backward
               \/ rig.camera_controller.right # rig.camera_controller.left)
           => rig'.camera.position # rig.camera.position]_vars

\* W pressed, a motion event, an update that turned the camera and a second
\* update: the yaw is that of the first update, the camera has moved on
C22_Witness ==
    /\ trail.op = "update"
    /\ trail.calls = 4
    /\ trail.arg.motions = <<>>
    /\ trail.arg.dt = U
    /\ rig.camera_controller.forward = U
    /\ rig.camera_controller.rotate_horizontal = 0
    /\ rig.camera.yaw = FRem(DefaultCamera.yaw + 4 * U, TWO_PI)
    /\ rig.camera.position.z # 0
    /\ rig.camera.position.x # 0

----------------------------------------------------------------------------
(* The scene                                                               *)

\* the transforms the entities are constructed with in AppState::new
ConstructedCube == Entity("cube", VZero, QuatOne, Vec3(U \div 100, U \div 100, U \div 100))
ConstructedPlane == Entity("plane", VZero, QuatFromAngleX(-90 * U), Vec3(2 * U, 2 * U, 2 * U))

\* C23: whatever updates, renders, resizes and input events happen, the only
\* transform component that changes is entity 0's position: every rotation
\* and scale and the plane's position keep their construction-time values,
\* and the entities and the passes keep their number and order.
C23_TransformsConstant ==
    app.state.some =>
        LET st == app.state.v
        IN  /\ Len(st.entities) = 2
            /\ [st.entities[1].entity EXCEPT !.position = VZero] = ConstructedCube
            /\ st.entities[2].entity = ConstructedPlane
            /\ st.entities[1].mesh_data = to_mesh_data("cube", CubeMesh)
            /\ st.entities[2].mesh_data = to_mesh_data("plane", PlaneMesh)
            /\ st.passes = <<cube_pass, plane_pass>>

\* after a resize, a key, a motion event and a presented frame entity 0 has
\* left its construction-time position
C23_Witness ==
    /\ Presented
    /\ app.state.v.entities[1].entity.position # VZero
    /\ app.state.v.entities[2].entity.position = VZero
    /\ app.state.v.is_surface_configured
    /\ app.state.v.camera_wrapper.camera.yaw # DefaultCamera.yaw

\* C24: in every reachable state, after construction and after every resize,
\* the depth buffer's width and height are those stored in the surface
\* configuration, and a render pass is begun with a depth buffer of that size.
C24_DepthMatchesConfig ==
    app.state.some =>
        LET st == app.state.v
        IN  /\ st.depth_texture.width = st.surface_config.width
            /\ st.depth_texture.height = st.surface_config.height
            /\ Presented =>
                 \A par \in CallPars(ev.calls, "begin_render_pass") :
                     /\ par.depth.width = st.surface_config.width
                     /\ par.depth.height = st.surface_config.height

\* a resize to 0 x 2: the depth buffer is 1 x 2 as the configuration is
C24_Witness ==
    /\ app.state.some
    /\ ev.kind = "Resized"
    /\ ev.arg = [width |-> 0, height |-> 2]
    /\ app.state.v.surface_config = [width |-> 1, height |-> 2]
    /\ app.state.v.depth_texture = [width |-> 1, height |-> 2]

\* the positions in a sequence of calls at which op is called
CallsAt(calls, op) == {i \in DOMAIN calls : calls[i].op = op}

\* the operations of AppState::update, in order
UpdateOps ==
    <<"queue.write_buffer", "update_entity_position", "queue.write_buffer",
      "camera_wrapper.update", "queue.write_buffer">>

\* C25: in every redraw event update runs to completion before render is
\* called, also while the surface is unconfigured; so a frame that is drawn
\* uses the light, instance and camera buffer contents written by the update
\* of the same event, never the construction-time light (position (0, 2, 0),
\* colour (1, 1, 1)) and never entity 0 at its construction-time position.
C25_UpdateBeforeRender ==
    Redrawn =>
        LET st == app.state.v
        IN  /\ Len(ev.calls) >= 6
            /\ OpsOf(SubSeq(ev.calls, 1, 5)) = UpdateOps
            /\ CallsAt(ev.calls, "window.request_redraw") = {6}
            /\ \A i \in DOMAIN ev.calls :
                   ev.calls[i].op \in FrameOps => i > 6
            /\ Presented =>
                 /\ st.point_light_uniform_buffer = ev.calls[1].par.data
                 /\ st.entities_data_buffer = ev.calls[3].par.data
                 /\ st.camera_uniform_buffer = ev.calls[5].par.data
                 /\ st.point_light_uniform_buffer # to_uniform_data(ConstructionLight)
                 /\ st.point_light_uniform_buffer.pos # Vec4(0, 2 * U, 0, U)
                 /\ st.point_light_uniform_buffer.diffuse_color # ToHomogeneous(Vec3(U, U, U))
                 /\ st.entities_data_buffer[1].mx_model[4] # <<0, 0, 0, U>>
                 /\ st.entities[1].entity.position # VZero

\* the first redraw of a run, on a surface that a resize configured: its
\* frame is drawn with the light of its own update
C25_Witness ==
    /\ Presented
    /\ ev.arg.dt = 0
    /\ now = app.state.v.start_time
    /\ Len(ev.calls) = 27
    /\ app.state.v.point_light_uniform_buffer.pos.y = U \div 5
    /\ app.state.v.entities[1].entity.position.y = U \div 5

====
